---- MODULE Spec2Model ----
(***************************************************************************)
(* Model of the crawl engine of src/main.py: the citation crawl            *)
(* scrape_paper_citers (the live definition, lines 32-353), the profile    *)
(* crawl scrape_google_scholar_profile (lines 656-803) and the two worker  *)
(* threads that run them (ScraperThread.run, CitersThread.run).            *)
(*                                                                         *)
(* The browser, the web site and the human at the console are the          *)
(* environment: every answer they give (an engine starts or not, an        *)
(* element is found or not, a call raises, a page shows a block marker)    *)
(* is a nondeterministic choice.  A result page keeps the content it had   *)
(* when it was first rendered (site), so that a page read twice reads the  *)
(* same rows.                                                              *)
(***************************************************************************)
EXTENDS Integers, Sequences, FiniteSets, TLC

\* ------------------------------------------------------------------ bounds
MaxResults == 3        \* results of the cited-by site
PageSize == 2          \* results rendered on one page of it
MaxRows == 2           \* rows of the profile table
MaxClicks == 2         \* times the "show more" button can be triggered
MaxLineLen == 4        \* tokens of an info line given to the row extraction
MaxCrawls == 3         \* threads the main window starts
MaxCiteLen == 2        \* characters of a citation text given to the row extraction

\* result pages of the largest site, and the cap of the page counter (pages
\* can be visited again)
MaxPages == (MaxResults + PageSize - 1) \div PageSize
MaxPageNum == MaxPages + 2

\* ---------------------------------------------------------- python values
None == "None"         \* Python None
Absent == "absent"     \* find_element raises NoSuchElementException

max_retries == 3

Falsy(v) == v = None \/ v = ""

\* A text looked up in a row: found with its characters, or not found
Text(t) == [found |-> TRUE, text |-> t]
NoText == [found |-> FALSE, text |-> <<>>]

SeqsUpTo(S, n) == UNION {[1..k -> S] : k \in 0..n}

\* ------------------------------------------------------ info line (gs_a)
\* A text is a sequence of tokens; Dash is the delimiter literal ' - '.
Dash == " - "
YearTokens == {"1999", "2019"}

RECURSIVE SplitFrom(_, _, _)
SplitFrom(text, i, cur) ==
    IF i > Len(text) THEN <<cur>>
    ELSE IF text[i] = Dash THEN <<cur>> \o SplitFrom(text, i + 1, <<>>)
    ELSE SplitFrom(text, i + 1, Append(cur, text[i]))

\* str.split(' - '): always at least one segment
Split(text) == SplitFrom(text, 1, <<>>)

\* re.search(r'\b(19|20)\d{2}\b', segment): the first year token, or None
YearSearch(seg) ==
    IF \E i \in 1..Len(seg) : seg[i] \in YearTokens
    THEN seg[CHOOSE i \in 1..Len(seg) :
               /\ seg[i] \in YearTokens
               /\ \A j \in 1..(i - 1) : seg[j] \notin YearTokens]
    ELSE None

\* CiterInfo with the year searched in the last segment, whichever it is
CiterInfoYearInLast(row) ==
    IF ~row.gs_a.found
    THEN [citer_authors |-> NoText, citer_publication |-> NoText, citer_year |-> None]
    ELSE LET info_parts == Split(row.gs_a.text) IN
         [citer_authors |-> IF Len(info_parts) > 0 THEN Text(info_parts[1]) ELSE NoText,
          citer_publication |-> IF Len(info_parts) > 1 THEN Text(info_parts[2]) ELSE NoText,
          citer_year |-> YearSearch(info_parts[Len(info_parts)])]

\* 'Get authors, publication, year': the three fields of the info line.
\* citer_authors and citer_publication are a text, or NoText for None;
\* citer_year is a year token or None.
CiterInfo(row) ==
    IF ~row.gs_a.found
    THEN [citer_authors |-> NoText, citer_publication |-> NoText, citer_year |-> None]
    ELSE LET info_parts == Split(row.gs_a.text) IN
         [citer_authors |-> IF Len(info_parts) > 0 THEN Text(info_parts[1]) ELSE NoText,
          citer_publication |-> IF Len(info_parts) > 1 THEN Text(info_parts[2]) ELSE NoText,
          citer_year |-> IF Len(info_parts) > 2 THEN YearSearch(info_parts[3]) ELSE None]

\* ------------------------------------------------------------- citer rows
\* gs_rt: text of the element of class gs_rt, or Absent
\* rt_a: href of the anchor nested under it, or Absent
\* h3a: text of the "h3 a" anchor, or Absent; h3a_href: its own href
\* gs_a: the gray info line, or NoText
CiterRow(rt, rta, h3, h3h, ga) ==
    [gs_rt |-> rt, rt_a |-> rta, h3a |-> h3, h3a_href |-> h3h, gs_a |-> ga]

Line3 == Text(<<"Author", Dash, "Venue", Dash, "2019">>)
Line2 == Text(<<"Author", Dash, "Venue", "2019">>)

SiteRows ==
    { CiterRow("A", "url_a", "A", "url_a", Line3),
      CiterRow("B", Absent, Absent, None, Line2),
      CiterRow("", Absent, "A", "url_a", NoText),
      CiterRow(Absent, Absent, "A", None, Line3),
      CiterRow(Absent, Absent, Absent, None, NoText) }

\* The title locators of one row: gs_rt, else "h3 a", else the row is skipped.
CiterTitle(row) ==
    IF row.gs_rt # Absent THEN [found |-> TRUE, title |-> row.gs_rt, elem |-> "gs_rt"]
    ELSE IF row.h3a # Absent THEN [found |-> TRUE, title |-> row.h3a, elem |-> "h3a"]
    ELSE [found |-> FALSE, title |-> None, elem |-> None]

\* The link: the anchor nested under the title element, else its own href.
CiterLink(row, elem) ==
    IF elem = "gs_rt"
    THEN IF row.rt_a # Absent THEN row.rt_a ELSE None
    ELSE row.h3a_href

CiterData(row) ==
    LET t == CiterTitle(row)
        info == CiterInfo(row) IN
    [citer_title |-> t.title,
     citer_link |-> CiterLink(row, t.elem),
     citer_authors |-> info.citer_authors,
     citer_publication |-> info.citer_publication,
     citer_year |-> info.citer_year]

\* SkipTitle without the test of an empty title
SkipTitleNoEmpty(title, seen) == title \in seen

\* SkipTitle without the test against the seen-set
SkipTitleNoDedup(title, seen) == Falsy(title)

\* 'if not title or title in seen_titles: continue'
SkipTitle(title, seen) == Falsy(title) \/ title \in seen

\* ExtractCiterRow without 'seen_titles.add(title)'
ExtractCiterRowNoAdd(row, cs, seen) ==
    LET t == CiterTitle(row) IN
    IF ~t.found \/ SkipTitle(t.title, seen)
    THEN [citers |-> cs, seen_titles |-> seen]
    ELSE [citers |-> Append(cs, CiterData(row)), seen_titles |-> seen]

\* ExtractCiterRow with the record put in front of the list
ExtractCiterRowPrepend(row, cs, seen) ==
    LET t == CiterTitle(row) IN
    IF ~t.found \/ SkipTitle(t.title, seen)
    THEN [citers |-> cs, seen_titles |-> seen]
    ELSE [citers |-> <<CiterData(row)>> \o cs,
          seen_titles |-> seen \cup {t.title}]

\* ExtractCiterRow with a row without info line skipped
ExtractCiterRowNeedsInfo(row, cs, seen) ==
    LET t == CiterTitle(row) IN
    IF ~t.found \/ SkipTitle(t.title, seen) \/ ~row.gs_a.found
    THEN [citers |-> cs, seen_titles |-> seen]
    ELSE [citers |-> Append(cs, CiterData(row)),
          seen_titles |-> seen \cup {t.title}]

\* One row of the page: the (citers, seen_titles) after the loop body.
ExtractCiterRow(row, cs, seen) ==
    LET t == CiterTitle(row) IN
    IF ~t.found \/ SkipTitle(t.title, seen)
    THEN [citers |-> cs, seen_titles |-> seen]
    ELSE [citers |-> Append(cs, CiterData(row)),
          seen_titles |-> seen \cup {t.title}]

\* ------------------------------------------------------------- result site
\* The cited-by results are one list, rendered PageSize rows to a page.
\* style is the markup of the pager, the same on every page:
\*   "aria"      a button with aria-label 'Next'
\*   "gs_nma"    an element of id gs_nma
\*   "href_next" links with 'start=' in the href, the next link the first
\*   "href_prev" the same, but from the second page on the first such link
\*               in document order leads to the previous page
\* last is how the control is rendered on the last page: "absent",
\* disabled by attribute ("attr") or by class ("class"), or still "enabled"
\* (its click leads to a page without rows).
NavStyles ==
    {[style |-> s, last |-> l] :
        s \in {"aria", "gs_nma"}, l \in {"absent", "attr", "class", "enabled"}}
    \cup {[style |-> s, last |-> "absent"] : s \in {"href_next", "href_prev"}}

Unloaded == [loaded |-> FALSE, results |-> <<>>, style |-> "aria", last |-> "absent"]

Sites ==
    {[loaded |-> TRUE, results |-> r, style |-> n.style, last |-> n.last] :
        r \in SeqsUpTo(SiteRows, MaxResults), n \in NavStyles}

NumPagesOf(s) ==
    IF Len(s.results) = 0 THEN 1 ELSE (Len(s.results) + PageSize - 1) \div PageSize

RowsOfPage(s, p) ==
    LET lo == (p - 1) * PageSize + 1
        hi == IF p * PageSize < Len(s.results) THEN p * PageSize ELSE Len(s.results)
    IN  IF p < 1 THEN <<>> ELSE SubSeq(s.results, lo, hi)

\* find_elements(gs_ri), else find_elements(gs_r), on the page shown
FindResults(s, p) == IF s.loaded THEN RowsOfPage(s, p) ELSE <<>>

\* The next control of page p of the site: loc is the locator that finds it
\* ("none": no locator finds one), dis how it is marked disabled ("no": it
\* is not), target the page its click leads to.
NoNav == [loc |-> "none", dis |-> "no", target |-> 0]

NavOf(s, p) ==
    IF s.style \in {"aria", "gs_nma"}
    THEN IF p < NumPagesOf(s) THEN [loc |-> s.style, dis |-> "no", target |-> p + 1]
         ELSE IF p > NumPagesOf(s) \/ s.last = "absent" THEN NoNav
         ELSE [loc |-> s.style,
               dis |-> IF s.last = "enabled" THEN "no" ELSE s.last,
               target |-> p + 1]
    ELSE IF s.style = "href_prev" /\ p > 1 THEN [loc |-> "href", dis |-> "no", target |-> p - 1]
    ELSE IF p < NumPagesOf(s) THEN [loc |-> "href", dis |-> "no", target |-> p + 1]
    ELSE NoNav

\* The three next-control locators, in order: the control found, or None
NextButton(nav) == IF nav.loc = "none" THEN None ELSE nav.loc

\* NextDisabled without the test of the class
NextDisabledAttrOnly(nav) == nav.dis = "attr"

\* 'is_disabled or has_disabled_class'
NextDisabled(nav) == nav.dis \in {"attr", "class"}

\* ----------------------------------------------------------- profile rows
\* A citation text is a sequence of characters.  "sup2" stands for a digit
\* character that is no decimal digit (str.isdigit() holds, int() raises).
DecimalDigits == {"0", "7"}
OtherDigits == {"sup2"}
Space == " "

RECURSIVE LStrip(_)
LStrip(t) == IF Len(t) > 0 /\ t[1] = Space THEN LStrip(Tail(t)) ELSE t

RECURSIVE RStrip(_)
RStrip(t) ==
    IF Len(t) > 0 /\ t[Len(t)] = Space THEN RStrip(SubSeq(t, 1, Len(t) - 1)) ELSE t

\* str.strip()
Strip(t) == RStrip(LStrip(t))

\* str.isdigit()
IsDigit(t) == Len(t) > 0 /\ \A i \in 1..Len(t) : t[i] \in DecimalDigits \cup OtherDigits

DigitValue(c) == IF c = "7" THEN 7 ELSE 0

RECURSIVE IntValue(_)
IntValue(t) ==
    IF Len(t) = 0 THEN 0
    ELSE 10 * IntValue(SubSeq(t, 1, Len(t) - 1)) + DigitValue(t[Len(t)])

\* int(text): the value, or ValueError
IntOf(t) ==
    IF Len(t) > 0 /\ \A i \in 1..Len(t) : t[i] \in DecimalDigits
    THEN [ok |-> TRUE, value |-> IntValue(t)]
    ELSE [ok |-> FALSE, value |-> 0]

\* gsc_a_at / href: title anchor text and href, or Absent
\* gs_gray: the texts of the gray lines; gsc_a_y: year text, or Absent;
\* gsc_a_c: citation text, or NoText; stale: a lookup of the row raises an exception that is
\* no NoSuchElementException (StaleElementReferenceException)
PaperRow(t, h, g, y, c, st) ==
    [gsc_a_at |-> t, href |-> h, gs_gray |-> g, gsc_a_y |-> y, gsc_a_c |-> c,
     stale |-> st]

ProfileRows ==
    { PaperRow("T1", "url_1", <<"authors", "venue">>, "2019", Text(<<"7", "0">>), FALSE),
      PaperRow(Absent, Absent, <<>>, Absent, NoText, FALSE),
      PaperRow("T2", None, <<"authors">>, "", Text(<<Space, "a">>), FALSE),
      PaperRow("T3", "url_3", <<"authors", "venue">>, "1999", Text(<<"sup2">>), FALSE),
      PaperRow("T4", "url_4", <<"authors", "venue">>, "2019", Text(<<"7">>), TRUE) }

\* The citation field: [ok, value]; ok is FALSE when int() raises.
Citations(row) ==
    IF ~row.gsc_a_c.found THEN [ok |-> TRUE, value |-> 0]
    ELSE LET citation_text == Strip(row.gsc_a_c.text) IN
         IF Len(citation_text) > 0 /\ IsDigit(citation_text)
         THEN IntOf(citation_text)
         ELSE [ok |-> TRUE, value |-> 0]

\* paper_data['paper_id'] = idx: the position of the row in paper_rows
PaperId(idx, papers) == idx

\* The body of 'for idx, row in enumerate(paper_rows, 1)': the list after it.
\* An exception of the body skips the row.
ExtractPaper(row, idx, papers) ==
    IF row.stale \/ ~Citations(row).ok THEN papers
    ELSE Append(papers,
           [paper_id |-> PaperId(idx, papers),
            title |-> IF row.gsc_a_at = Absent THEN None ELSE row.gsc_a_at,
            link |-> IF row.gsc_a_at = Absent THEN None ELSE row.href,
            authors |-> IF Len(row.gs_gray) > 0 THEN row.gs_gray[1] ELSE None,
            publication |-> IF Len(row.gs_gray) > 1 THEN row.gs_gray[2] ELSE None,
            year |-> IF row.gsc_a_y = Absent \/ row.gsc_a_y = "" THEN None
                     ELSE row.gsc_a_y,
            citations |-> Citations(row).value])


NoReturn == [set |-> FALSE, val |-> <<>>]
Return(v) == [set |-> TRUE, val |-> v]

VARIABLES
    crawl,        \* "citers" or "profile": the function the thread runs
    pc,           \* position in the thread
    driver,       \* None, "firefox" or "chrome"
    browser,      \* "none", "open", or "quit" once driver.quit() was called
    launches,     \* engines whose start was attempted, in order
    gets,         \* urls loaded with driver.get, in order
    page_source,  \* block marker of the page shown: "clear", "captcha", "unusual traffic"
    scans,        \* number of reads of driver.page_source (gate checks)
    inputs,       \* the input() calls that returned (resume signals), in order:
                  \* "gate" after a block marker, "results" after no result
    site,         \* the cited-by site as first rendered
    cur,          \* the result page shown (0: none)
    paper_rows,   \* rows of the pass in progress
    row_i,        \* next row of paper_rows
    citers, seen_titles, page_num, retry_count,
    all_papers, clicks,
    batches,      \* times the "show more" button is enabled before it is
                  \* disabled or absent (the batches the profile still holds)
    expand_end,   \* how the "show more" loop ended: "none" (not yet),
                  \* "timeout", "disabled" or "error"
    table,        \* the publications table: "unknown", "present" or "timeout"
    cited_by_url, \* None, or the url of the cited-by results
    exc,          \* the exception leaving the function, or None
    retval,       \* [set, val]: the value of a return statement reached
    signals,      \* Qt signals emitted by the thread, in order
    opened,       \* browser instances started by the crawl
    quit_requested, \* QThread.quit() was called on the thread of the crawl
    \* the main window
    search_btn,     \* the search button is enabled
    scraper_thread, \* "none", "running" or "finished"
    citers_thread,  \* "none", "running" or "finished"
    papers_df,      \* None, "empty" or "rows"
    papers_table,   \* "empty", or "rows" once a result was shown
    citers_table,   \* "empty", "loading", "rows", "no citers" or "error"
    current_paper_title, \* the paper named in the citers header, or None
    citers_thread_title, \* paper_title of the citers thread started last
    citers_table_title,  \* the paper whose citers the table shows, or None
    events,         \* signals of the threads queued for the slots, in order
    started         \* threads started so far

vars == <<crawl, pc, driver, browser, launches, gets, page_source, scans, inputs,
          site, cur, paper_rows, row_i, citers, seen_titles, page_num, retry_count,
          all_papers, clicks, batches, expand_end, table, cited_by_url, exc, retval,
          signals, opened, quit_requested, search_btn, scraper_thread,
          citers_thread, papers_df, papers_table, citers_table,
          current_paper_title, citers_thread_title, citers_table_title,
          events, started>>

siteVars == <<page_source, site, cur>>
citerVars == <<paper_rows, row_i, citers, seen_titles, page_num, retry_count,
               cited_by_url>>
profileVars == <<all_papers, clicks, batches, expand_end, table>>
sessionVars == <<driver, browser, launches, opened>>
guiVars == <<search_btn, scraper_thread, citers_thread, papers_df, papers_table,
             citers_table, current_paper_title, citers_thread_title,
             citers_table_title, events, started>>
crawlVars == <<crawl, pc, sessionVars, gets, scans, inputs, siteVars, citerVars,
               profileVars, exc, retval, signals>>

Init ==
    /\ crawl \in {"citers", "profile"}
    /\ pc = "run"
    /\ driver = None
    /\ browser = "none"
    /\ launches = <<>>
    /\ gets = <<>>
    /\ page_source = "clear"
    /\ scans = 0
    /\ inputs = <<>>
    /\ site = Unloaded
    /\ cur = 0
    /\ paper_rows = <<>>
    /\ row_i = 1
    /\ citers = <<>>
    /\ seen_titles = {}
    /\ page_num = 1
    /\ retry_count = 0
    /\ all_papers = <<>>
    /\ clicks = 0
    /\ batches = 0
    /\ expand_end = "none"
    /\ table = "unknown"
    /\ cited_by_url = None
    /\ exc = None
    /\ retval = NoReturn
    /\ signals = <<>>
    /\ opened = 0
    /\ quit_requested = FALSE
    /\ search_btn = TRUE
    /\ scraper_thread = "none"
    /\ citers_thread = "none"
    /\ papers_df = None
    /\ papers_table = "empty"
    /\ citers_table = "empty"
    /\ current_paper_title = None
    /\ citers_thread_title = None
    /\ citers_table_title = None
    /\ events = <<>>
    /\ started = 0

\* ------------------------------------------------------------ thread start
\* run(): the first progress signal, then the call of the crawl function.
ThreadRun ==
    /\ pc = "run"
    /\ signals' = Append(signals, <<"progress", "start">>)
    /\ pc' = "firefox"
    /\ UNCHANGED <<guiVars, quit_requested, crawl, sessionVars, gets, scans, inputs, siteVars, citerVars,
                   profileVars, exc, retval>>

\* -------------------------------------------------------- browser session
NoBrowser == "Could not start Firefox or Chrome. Please install one of them."

AfterLaunch == IF crawl = "citers" THEN "load_paper" ELSE "load_profile"

\* The option arguments and preferences the crawl c sets before it starts
\* the engine e (lines 44-51 and 58-68, lines 665-668 and 675-682)
EngineOptions(c, e) ==
    IF c = "citers"
    THEN IF e = "firefox"
         THEN {"general.useragent.override", "dom.webdriver.enabled",
               "useAutomationExtension"}
         ELSE {"--no-sandbox", "--disable-dev-shm-usage",
               "--disable-blink-features=AutomationControlled", "excludeSwitches",
               "useAutomationExtension", "--disable-gpu", "--window-size=1920,1080",
               "user-agent"}
    ELSE IF e = "firefox"
         THEN {"--headless", "general.useragent.override"}
         ELSE {"--headless", "--no-sandbox", "--disable-dev-shm-usage",
               "--disable-blink-features=AutomationControlled", "--disable-gpu",
               "--window-size=1920,1080", "user-agent"}

\* StartFirefox going on to Chrome also when Firefox started
StartFirefoxThenChrome ==
    /\ pc = "firefox"
    /\ launches' = Append(launches, "firefox")
    /\ \E ok \in BOOLEAN :
         IF ok THEN /\ driver' = "firefox"
                    /\ browser' = "open"
                    /\ opened' = opened + 1
         ELSE UNCHANGED <<driver, browser, opened>>
    /\ pc' = "chrome"
    /\ UNCHANGED <<guiVars, quit_requested, crawl, gets, scans, inputs, siteVars, citerVars, profileVars,
                   exc, retval, signals>>

\* webdriver.Firefox(options): starts, or raises and Chrome is tried.  Both
\* crawl functions open the session with the same code (lines 42-73 and
\* 663-687); crawl tells which one is running.
StartFirefox ==
    /\ pc = "firefox"
    /\ launches' = Append(launches, "firefox")
    /\ \E ok \in BOOLEAN :
         IF ok THEN /\ driver' = "firefox"
                    /\ browser' = "open"
                    /\ opened' = opened + 1
                    /\ pc' = AfterLaunch
         ELSE /\ pc' = "chrome"
              /\ UNCHANGED <<driver, browser, opened>>
    /\ UNCHANGED <<guiVars, quit_requested, crawl, gets, scans, inputs, siteVars, citerVars, profileVars,
                   exc, retval, signals>>

\* webdriver.Chrome(options): starts, or the function raises
StartChrome ==
    /\ pc = "chrome"
    /\ launches' = Append(launches, "chrome")
    /\ \E ok \in BOOLEAN :
         IF ok THEN /\ driver' = "chrome"
                    /\ browser' = "open"
                    /\ opened' = opened + 1
                    /\ pc' = AfterLaunch
                    /\ exc' = exc
         ELSE /\ pc' = "raised"
              /\ exc' = NoBrowser
              /\ UNCHANGED <<driver, browser, opened>>
    /\ UNCHANGED <<guiVars, quit_requested, crawl, gets, scans, inputs, siteVars, citerVars, profileVars,
                   retval, signals>>

\* --------------------------------------------------------- citation crawl
\* LoadPaper without the outer handler: the exception leaves the function
LoadPaperRaises ==
    /\ pc = "load_paper"
    /\ \E ok \in BOOLEAN :
         IF ok THEN /\ gets' = Append(gets, "paper_url")
                    /\ pc' = "find_link"
                    /\ UNCHANGED exc
         ELSE /\ pc' = "raised"
              /\ exc' = "WebDriverException"
              /\ UNCHANGED gets
    /\ UNCHANGED <<guiVars, quit_requested, crawl, sessionVars, scans, inputs, siteVars, citerVars,
                   profileVars, retval, signals>>

\* driver.get(paper_url); an exception is swallowed by the outer handler
LoadPaper ==
    /\ pc = "load_paper"
    /\ \E ok \in BOOLEAN :
         IF ok THEN /\ gets' = Append(gets, "paper_url")
                    /\ pc' = "find_link"
         ELSE /\ pc' = "finally"
              /\ UNCHANGED gets
    /\ UNCHANGED <<guiVars, quit_requested, crawl, sessionVars, scans, inputs, siteVars, citerVars,
                   profileVars, exc, retval, signals>>

\* Strategy 1 (the 'Cited by' anchor), then strategy 2 (a scholar link with
\* 'cites=' in its href); None when neither yields a url.
CitedByUrl(link1, link2) ==
    IF link1 # Absent /\ ~Falsy(link1) THEN link1
    ELSE IF link2 # Absent THEN link2
    ELSE None

\* FindCitedBy without 'if not cited_by_url: return []'
FindCitedByNoReturn ==
    /\ pc = "find_link"
    /\ \E link1 \in {Absent, None, "cited_by_href"}, link2 \in {Absent, "cites_href"} :
         cited_by_url' = CitedByUrl(link1, link2)
    /\ pc' = "navigate"
    /\ UNCHANGED <<guiVars, quit_requested, crawl, sessionVars, gets, scans, inputs, siteVars, paper_rows,
                   row_i, citers, seen_titles, page_num, retry_count, profileVars,
                   exc, retval, signals>>

FindCitedBy ==
    /\ pc = "find_link"
    /\ \E link1 \in {Absent, None, "cited_by_href"}, link2 \in {Absent, "cites_href"} :
         LET url == CitedByUrl(link1, link2) IN
         /\ cited_by_url' = url
         /\ IF Falsy(url)
            THEN /\ retval' = Return(<<>>)
                 /\ pc' = "finally"
            ELSE /\ pc' = "navigate"
                 /\ UNCHANGED retval
    /\ UNCHANGED <<guiVars, quit_requested, crawl, sessionVars, gets, scans, inputs, siteVars, paper_rows,
                   row_i, citers, seen_titles, page_num, retry_count, profileVars,
                   exc, signals>>

Markers == {"clear", "captcha", "unusual traffic"}

\* driver.get(cited_by_url): the page that comes back is clear (the first
\* result page is rendered) or shows a block marker (no results rendered).
Navigate ==
    /\ pc = "navigate"
    /\ \E ok \in BOOLEAN :
         IF ok
         THEN /\ gets' = Append(gets, cited_by_url)
              /\ cur' = 1
              /\ \E m \in Markers :
                   /\ page_source' = m
                   /\ IF m = "clear"
                      THEN site' \in Sites
                      ELSE site' = site
              /\ pc' = "gate"
         ELSE /\ pc' = "finally"
              /\ UNCHANGED <<gets, siteVars>>
    /\ UNCHANGED <<guiVars, quit_requested, crawl, sessionVars, scans, inputs, citerVars, profileVars,
                   exc, retval, signals>>

GateState(src) ==
    IF src = "captcha" THEN "HardBlock"
    ELSE IF src = "unusual traffic" THEN "SoftBlock"
    ELSE "Clear"

\* page_source = driver.page_source.lower(); the two marker tests
CheckGate ==
    /\ pc = "gate"
    /\ scans' = scans + 1
    /\ pc' = IF GateState(page_source) = "Clear" THEN "detect" ELSE "input1"
    /\ UNCHANGED <<guiVars, quit_requested, crawl, sessionVars, gets, inputs, siteVars, citerVars,
                   profileVars, exc, retval, signals>>

\* input() returns: the human pressed ENTER, having solved the challenge
\* (the results are rendered) or not.
Resume ==
    /\ pc = "input1"
    /\ inputs' = Append(inputs, "gate")
    /\ \E solved \in BOOLEAN :
         IF solved
         THEN /\ page_source' = "clear"
              /\ site' \in Sites
         ELSE UNCHANGED <<page_source, site>>
    /\ pc' = "detect"
    /\ UNCHANGED <<guiVars, quit_requested, crawl, sessionVars, gets, scans, cur, citerVars, profileVars,
                   exc, retval, signals>>

\* the result detection: gs_ri, then gs_r
DetectResults ==
    /\ pc = "detect"
    /\ pc' = IF Len(FindResults(site, cur)) > 0 THEN "loop" ELSE "input2"
    /\ UNCHANGED <<guiVars, quit_requested, crawl, sessionVars, gets, scans, inputs, siteVars, citerVars,
                   profileVars, exc, retval, signals>>

\* the second input(), reached when no result was detected, and the
\* detection repeated after it
ResumeNoResults ==
    /\ pc = "input2"
    /\ inputs' = Append(inputs, "results")
    /\ \E st \in (IF site.loaded THEN {site} ELSE Sites \cup {Unloaded}) :
         /\ site' = st
         /\ page_source' = IF st.loaded THEN "clear" ELSE page_source
         /\ IF Len(FindResults(st, cur)) > 0
            THEN /\ pc' = "loop"
                 /\ UNCHANGED retval
            ELSE /\ retval' = Return(<<>>)
                 /\ pc' = "finally"
    /\ UNCHANGED <<guiVars, quit_requested, crawl, sessionVars, gets, scans, cur, citerVars, profileVars,
                   exc, signals>>

\* LoopTop with the stop one failure late ('>' for '>=')
LoopTopLateStop ==
    /\ pc = "loop"
    /\ \E ok \in BOOLEAN :
         IF ok
         THEN /\ paper_rows' = FindResults(site, cur)
              /\ row_i' = 1
              /\ pc' = IF Len(FindResults(site, cur)) = 0 THEN "finally" ELSE "row"
              /\ UNCHANGED retry_count
         ELSE /\ retry_count' = retry_count + 1
              /\ pc' = IF retry_count + 1 > max_retries THEN "finally" ELSE "loop"
              /\ UNCHANGED <<paper_rows, row_i>>
    /\ UNCHANGED <<guiVars, quit_requested, crawl, sessionVars, gets, scans, inputs, siteVars, citers,
                   seen_titles, page_num, cited_by_url, profileVars, exc, retval,
                   signals>>

\* Top of the page loop: the rows of the page shown are located; an
\* exception here is the page-level error that is retried.
LoopTop ==
    /\ pc = "loop"
    /\ \E ok \in BOOLEAN :
         IF ok
         THEN /\ paper_rows' = FindResults(site, cur)
              /\ row_i' = 1
              /\ pc' = IF Len(FindResults(site, cur)) = 0 THEN "finally" ELSE "row"
              /\ UNCHANGED retry_count
         ELSE /\ retry_count' = retry_count + 1
              /\ pc' = IF retry_count + 1 >= max_retries THEN "finally" ELSE "loop"
              /\ UNCHANGED <<paper_rows, row_i>>
    /\ UNCHANGED <<guiVars, quit_requested, crawl, sessionVars, gets, scans, inputs, siteVars, citers,
                   seen_titles, page_num, cited_by_url, profileVars, exc, retval,
                   signals>>

\* One iteration of 'for row in paper_rows'
ExtractRow ==
    /\ pc = "row"
    /\ LET r == ExtractCiterRow(paper_rows[row_i], citers, seen_titles) IN
         /\ citers' = r.citers
         /\ seen_titles' = r.seen_titles
    /\ row_i' = row_i + 1
    /\ pc' = IF row_i = Len(paper_rows) THEN "next" ELSE "row"
    /\ UNCHANGED <<guiVars, quit_requested, crawl, sessionVars, gets, scans, inputs, siteVars, paper_rows,
                   page_num, retry_count, cited_by_url, profileVars, exc, retval,
                   signals>>

\* 'page_num += 1'.  The code reads page_num only in its messages and in
\* the tests 'page_num > 1' and 'page_num == 1', so the count is kept up to
\* MaxPageNum and stays there: a crawl that goes on advancing goes on here.
NextPageNum(n) == IF n < MaxPageNum THEN n + 1 ELSE n

\* The next control is clicked: found by a locator and not marked disabled.
MayClick(nav) == NextButton(nav) # None /\ ~NextDisabled(nav)

\* NextPage with the gate checked again on the page the click leads to
NextPageThenGate ==
    /\ pc = "next"
    /\ IF ~MayClick(NavOf(site, cur))
       THEN /\ pc' = "finally"
            /\ UNCHANGED <<siteVars, page_num, retry_count>>
       ELSE \E click \in {"click", "execute_script", "raise"} :
              IF click = "raise"
              THEN /\ pc' = "finally"
                   /\ UNCHANGED <<siteVars, page_num, retry_count>>
              ELSE /\ cur' = NavOf(site, cur).target
                   /\ page_num' = NextPageNum(page_num)
                   /\ retry_count' = 0
                   /\ pc' = "gate"
                   /\ UNCHANGED <<page_source, site>>
    /\ UNCHANGED <<guiVars, quit_requested, crawl, sessionVars, gets, scans, inputs, paper_rows, row_i,
                   citers, seen_titles, cited_by_url, profileVars, exc, retval,
                   signals>>

\* NextPage with an exception of the click handled like a page error: the
\* retry counter is raised and the page is tried again
NextPageRetried ==
    /\ pc = "next"
    /\ IF ~MayClick(NavOf(site, cur))
       THEN /\ pc' = "finally"
            /\ UNCHANGED <<siteVars, page_num, retry_count>>
       ELSE \E click \in {"click", "execute_script", "raise"} :
              IF click = "raise"
              THEN /\ retry_count' = retry_count + 1
                   /\ pc' = IF retry_count + 1 >= max_retries THEN "finally" ELSE "loop"
                   /\ UNCHANGED <<siteVars, page_num>>
              ELSE /\ cur' = NavOf(site, cur).target
                   /\ page_num' = NextPageNum(page_num)
                   /\ retry_count' = 0
                   /\ pc' = "loop"
                   /\ UNCHANGED <<page_source, site>>
    /\ UNCHANGED <<guiVars, quit_requested, crawl, sessionVars, gets, scans, inputs, paper_rows, row_i,
                   citers, seen_titles, cited_by_url, profileVars, exc, retval,
                   signals>>

\* 'Try to go to next page': no control or a disabled one ends the loop, an
\* exception while locating or clicking ends it too, a click advances.
NextPage ==
    /\ pc = "next"
    /\ IF ~MayClick(NavOf(site, cur))
       THEN /\ pc' = "finally"
            /\ UNCHANGED <<siteVars, page_num, retry_count>>
       ELSE \E click \in {"click", "execute_script", "raise"} :
              IF click = "raise"
              THEN /\ pc' = "finally"
                   /\ UNCHANGED <<siteVars, page_num, retry_count>>
              ELSE /\ cur' = NavOf(site, cur).target
                   /\ page_num' = NextPageNum(page_num)
                   /\ retry_count' = 0
                   /\ pc' = "loop"
                   /\ UNCHANGED <<page_source, site>>
    /\ UNCHANGED <<guiVars, quit_requested, crawl, sessionVars, gets, scans, inputs, paper_rows, row_i,
                   citers, seen_titles, cited_by_url, profileVars, exc, retval,
                   signals>>

\* QuitBrowser with the call of quit() left out
QuitBrowserSkipped(d, b) == b

\* The state of the browser after the finally block of the citation crawl:
\* 'if driver: ... driver.quit()', an exception of quit() being swallowed.
QuitBrowser(d, b) == IF d # None THEN "quit" ELSE b

\* finally, then the return statement reached ('return []' or 'return citers')
Finally ==
    /\ pc = "finally"
    /\ browser' = QuitBrowser(driver, browser)
    /\ retval' = IF retval.set THEN retval ELSE Return(citers)
    /\ pc' = "returned"
    /\ UNCHANGED <<guiVars, quit_requested, crawl, driver, launches, opened, gets, scans, inputs, siteVars,
                   citerVars, profileVars, exc, signals>>

\* ---------------------------------------------------------- thread ending
\* the crawl function returned: progress, then finished with its value
EmitFinished ==
    /\ pc = "returned"
    /\ signals' = signals \o <<<<"progress", Len(retval.val)>>, <<"finished", retval.val>>>>
    /\ pc' = "done"
    /\ UNCHANGED <<guiVars, quit_requested, crawl, sessionVars, gets, scans, inputs, siteVars, citerVars,
                   profileVars, exc, retval>>

\* the crawl function raised: error with the message
EmitError ==
    /\ pc = "raised"
    /\ signals' = Append(signals, <<"error", exc>>)
    /\ pc' = "done"
    /\ UNCHANGED <<guiVars, quit_requested, crawl, sessionVars, gets, scans, inputs, siteVars, citerVars,
                   profileVars, exc, retval>>

\* ----------------------------------------------------------- profile crawl
\* LoadProfile with the url loaded again after a failed load
LoadProfileAgain ==
    /\ pc = "load_profile"
    /\ \E ok \in BOOLEAN :
         IF ok THEN /\ gets' = Append(gets, "profile_url")
                    /\ batches' \in 0..MaxClicks
                    /\ pc' = "expand"
                    /\ UNCHANGED exc
         ELSE IF Len(gets) < 1
         THEN /\ gets' = Append(gets, "profile_url")
              /\ pc' = "load_profile"
              /\ UNCHANGED <<exc, batches>>
         ELSE /\ exc' = "WebDriverException"
              /\ pc' = "p_finally"
              /\ UNCHANGED <<gets, batches>>
    /\ UNCHANGED <<guiVars, quit_requested, crawl, sessionVars, scans, inputs, siteVars, citerVars,
                   all_papers, clicks, expand_end, table, retval, signals>>

\* driver.get(profile_url): an exception leaves the function (no handler)
LoadProfile ==
    /\ pc = "load_profile"
    /\ \E ok \in BOOLEAN :
         IF ok THEN /\ gets' = Append(gets, "profile_url")
                    /\ batches' \in 0..MaxClicks
                    /\ pc' = "expand"
                    /\ UNCHANGED exc
         ELSE /\ exc' = "WebDriverException"
              /\ pc' = "p_finally"
              /\ UNCHANGED <<gets, batches>>
    /\ UNCHANGED <<guiVars, quit_requested, crawl, sessionVars, scans, inputs, siteVars, citerVars,
                   all_papers, clicks, expand_end, table, retval, signals>>

\* What the wait for the button gsc_bpf_more and its 'disabled' test can
\* give after c clicks on a profile of k batches: "timeout" (absent),
\* "disabled", "enabled", or "error" (another exception).
ShowMore(c, k) ==
    IF c < k THEN {"enabled", "error"} ELSE {"timeout", "disabled", "error"}

\* Expand without the test of the 'disabled' attribute: a disabled button
\* is clicked like an enabled one
ExpandIgnoreDisabled ==
    /\ pc = "expand"
    /\ \E button \in ShowMore(clicks, batches) :
         IF button \in {"enabled", "disabled"}
         THEN /\ clicks <= MaxClicks
              /\ clicks' = clicks + 1
              /\ pc' = "expand"
              /\ UNCHANGED expand_end
         ELSE /\ pc' = "wait_table"
              /\ expand_end' = button
              /\ UNCHANGED clicks
    /\ UNCHANGED <<guiVars, quit_requested, crawl, sessionVars, gets, scans, inputs, siteVars, citerVars,
                   all_papers, batches, table, exc, retval, signals>>

\* Expand with only the timeout handled: another exception leaves the
\* function
ExpandRaises ==
    /\ pc = "expand"
    /\ \E button \in ShowMore(clicks, batches) :
         IF button = "enabled"
         THEN \E click_ok \in BOOLEAN :
                IF click_ok THEN /\ clicks' = clicks + 1
                                 /\ pc' = "expand"
                                 /\ UNCHANGED <<expand_end, exc>>
                ELSE /\ pc' = "p_finally"
                     /\ expand_end' = "error"
                     /\ exc' = "WebDriverException"
                     /\ UNCHANGED clicks
         ELSE /\ pc' = IF button = "error" THEN "p_finally" ELSE "wait_table"
              /\ expand_end' = button
              /\ exc' = IF button = "error" THEN "WebDriverException" ELSE exc
              /\ UNCHANGED clicks
    /\ UNCHANGED <<guiVars, quit_requested, crawl, sessionVars, gets, scans, inputs, siteVars, citerVars,
                   all_papers, batches, table, retval, signals>>

\* One iteration of the "show more" loop: the button is awaited (timeout:
\* all loaded), tested for 'disabled', and clicked; any exception ends the
\* loop.
Expand ==
    /\ pc = "expand"
    /\ \E button \in ShowMore(clicks, batches) :
         IF button = "enabled"
         THEN \E click_ok \in BOOLEAN :
                IF click_ok THEN /\ clicks' = clicks + 1
                                 /\ pc' = "expand"
                                 /\ UNCHANGED expand_end
                ELSE /\ pc' = "wait_table"
                     /\ expand_end' = "error"
                     /\ UNCHANGED clicks
         ELSE /\ pc' = "wait_table"
              /\ expand_end' = button
              /\ UNCHANGED clicks
    /\ UNCHANGED <<guiVars, quit_requested, crawl, sessionVars, gets, scans, inputs, siteVars, citerVars,
                   all_papers, batches, table, exc, retval, signals>>

\* The value returned when the wait for the table gsc_a_b times out
TableNotFound == Return(<<>>)

\* WebDriverWait for the publications table, then the rows are located
WaitTable ==
    /\ pc = "wait_table"
    /\ \E present \in BOOLEAN :
         IF present
         THEN /\ table' = "present"
              /\ \E rows \in SeqsUpTo(ProfileRows, MaxRows) :
                   /\ paper_rows' = rows
                   /\ pc' = IF Len(rows) = 0 THEN "p_finally" ELSE "p_row"
              /\ row_i' = 1
              /\ UNCHANGED retval
         ELSE /\ table' = "timeout"
              /\ retval' = TableNotFound
              /\ pc' = "p_finally"
              /\ UNCHANGED <<paper_rows, row_i>>
    /\ UNCHANGED <<guiVars, quit_requested, crawl, sessionVars, gets, scans, inputs, siteVars, citers,
                   seen_titles, page_num, retry_count, cited_by_url, all_papers,
                   clicks, batches, expand_end, exc, signals>>

\* ExtractPaperRow without the handler of the loop body: an exception of a
\* row leaves the loop
ExtractPaperRowNoHandler ==
    /\ pc = "p_row"
    /\ all_papers' = ExtractPaper(paper_rows[row_i], row_i, all_papers)
    /\ row_i' = row_i + 1
    /\ pc' = IF row_i = Len(paper_rows)
                 \/ paper_rows[row_i].stale \/ ~Citations(paper_rows[row_i]).ok
             THEN "p_finally" ELSE "p_row"
    /\ UNCHANGED <<guiVars, quit_requested, crawl, sessionVars, gets, scans, inputs, siteVars, paper_rows,
                   citers, seen_titles, page_num, retry_count, cited_by_url,
                   clicks, batches, expand_end, table, exc, retval, signals>>

\* One iteration of the row loop of the profile crawl
ExtractPaperRow ==
    /\ pc = "p_row"
    /\ all_papers' = ExtractPaper(paper_rows[row_i], row_i, all_papers)
    /\ row_i' = row_i + 1
    /\ pc' = IF row_i = Len(paper_rows) THEN "p_finally" ELSE "p_row"
    /\ UNCHANGED <<guiVars, quit_requested, crawl, sessionVars, gets, scans, inputs, siteVars, paper_rows,
                   citers, seen_titles, page_num, retry_count, cited_by_url,
                   clicks, batches, expand_end, table, exc, retval, signals>>

\* The state of the browser after 'finally: driver.quit()'
QuitProfileBrowser(b) == "quit"

\* 'finally: driver.quit()' of the profile crawl: an exception of quit()
\* leaves the function; otherwise the pending exception or return goes on.
ProfileFinally ==
    /\ pc = "p_finally"
    /\ browser' = QuitProfileBrowser(browser)
    /\ \E quit_ok \in BOOLEAN :
         IF ~quit_ok
         THEN /\ exc' = "WebDriverException"
              /\ pc' = "raised"
              /\ UNCHANGED retval
         ELSE IF exc # None
         THEN /\ pc' = "raised"
              /\ UNCHANGED <<exc, retval>>
         ELSE /\ retval' = IF retval.set THEN retval ELSE Return(all_papers)
              /\ pc' = "returned"
              /\ UNCHANGED exc
    /\ UNCHANGED <<guiVars, quit_requested, crawl, driver, launches, opened, gets, scans, inputs, siteVars,
                   citerVars, profileVars, signals>>

Next ==
    \/ ThreadRun
    \/ StartFirefox
    \/ StartChrome
    \/ LoadPaper
    \/ FindCitedBy
    \/ Navigate
    \/ CheckGate
    \/ Resume
    \/ DetectResults
    \/ ResumeNoResults
    \/ LoopTop
    \/ ExtractRow
    \/ NextPage
    \/ Finally
    \/ LoadProfile
    \/ Expand
    \/ WaitTable
    \/ ExtractPaperRow
    \/ ProfileFinally
    \/ EmitFinished
    \/ EmitError

Spec == Init /\ [][Next]_vars

\* ------------------------------------------------------------ properties
Terminal == {"returned", "raised", "done"}

LastSignal == signals[Len(signals)]

\* C1: in every result of the profile crawl the paper_id values of the
\* records are exactly 1..N, N the number of records, also when the
\* extraction of a row raised and the row was skipped.
C1_DenseIds ==
    \A i \in 1..Len(all_papers) : all_papers[i].paper_id = i

\* C2: at every point of a citation crawl, over all pages visited and all
\* retries, no two records of citers have the same title.
C2_UniqueTitles ==
    \A i, j \in 1..Len(citers) :
        i # j => citers[i].citer_title # citers[j].citer_title

\* a page was extracted a second time and the list holds two records
C2_Witness ==
    /\ crawl = "citers"
    /\ pc = "next"
    /\ site.loaded
    /\ page_num > NumPagesOf(site)
    /\ cur <= NumPagesOf(site)
    /\ Len(citers) >= 2

\* C3: the page loop ends on a finite set of result pages: every advance
\* (a click on the next control, whichever locator found it) shows a page
\* after the one just extracted, so that no page is visited again and no
\* run advances forever.
C3_AdvanceIsForward ==
    [][(pc = "next" /\ pc' = "loop") => cur' > cur]_vars

\* C4: after the resume signal that follows a block marker, the gate is
\* checked again (page_source is read again) before the results are
\* detected and extracted.
C4_RecheckAfterResume ==
    (\E i \in 1..Len(inputs) : inputs[i] = "gate") /\ pc \in {"detect", "loop", "row", "next"}
        => scans >= 2

\* C5: when the retries of a page are exhausted, the citation crawl ends
\* with a failure outcome (the error signal) for MaxRetriesExceeded.
C5_MaxRetriesFails ==
    (crawl = "citers" /\ pc = "done" /\ retry_count >= max_retries)
        => LastSignal[1] = "error"

\* C6: when a citation crawl ends on a failure after records were
\* collected, the partial list is not delivered through the finished signal.
C6_NoPartialSuccess ==
    (crawl = "citers" /\ pc = "done" /\ retry_count >= max_retries /\ Len(citers) > 0)
        => \A i \in 1..Len(signals) : signals[i][1] # "finished"

\* C7: in both crawls, on every exit path (return, early return, exception)
\* of a crawl that started a browser, quit() was called on it: no terminal
\* state is reached with the browser still open.
C7_BrowserQuitOnExit ==
    pc \in Terminal => (driver # None => browser = "quit") /\ browser # "open"

\* an exception left the crawl after the browser had started
C7_Witness ==
    /\ pc = "raised"
    /\ driver # None
    /\ browser = "quit"

\* C8: the engines are tried in the order Firefox, Chrome, each at most
\* once; Chrome only after Firefox failed to start; the first that starts is
\* used; the crawl fails with the no-browser error, before any navigation,
\* exactly when both failed to start.
C8_EngineOrder ==
    /\ launches \in {<<>>, <<"firefox">>, <<"firefox", "chrome">>}
    /\ driver = "firefox" => launches = <<"firefox">>
    /\ driver = "chrome" => launches = <<"firefox", "chrome">>
    /\ pc \notin {"run", "firefox", "chrome"} => (driver = None <=> exc = NoBrowser)
    /\ exc = NoBrowser => /\ launches = <<"firefox", "chrome">>
                          /\ gets = <<>>
                          /\ pc \in {"raised", "done"}
    /\ (pc = "done" /\ exc = NoBrowser) => LastSignal = <<"error", NoBrowser>>

\* both engines failed and the error was signalled
C8_Witness ==
    /\ pc = "done"
    /\ exc = NoBrowser
    /\ launches = <<"firefox", "chrome">>

\* C9: when the publications table never appears, the profile crawl ends
\* with a failure outcome (the error signal), which differs from the
\* outcome of a crawl that found zero publications.
C9_TableNotFoundFails ==
    (crawl = "profile" /\ pc = "done" /\ table = "timeout")
        => LastSignal[1] = "error"

\* C10: when neither link strategy of the citation crawl yields a url, the
\* crawl ends normally with an empty result: no further navigation, no gate
\* check, no wait for input, no failure.
C10_NoLinkEmptyResult ==
    (crawl = "citers" /\ gets # <<>> /\ pc # "find_link" /\ Falsy(cited_by_url))
        => /\ pc \in {"finally", "returned", "done"}
           /\ gets = <<"paper_url">>
           /\ scans = 0
           /\ inputs = <<>>
           /\ exc = None
           /\ citers = <<>>
           /\ pc \in {"returned", "done"} => retval = Return(<<>>)
           /\ pc = "done" => LastSignal[1] = "finished" /\ LastSignal[2] = <<>>

\* the thread ended after a publication page without any cited-by link
C10_Witness ==
    /\ crawl = "citers"
    /\ pc = "done"
    /\ gets = <<"paper_url">>
    /\ cited_by_url = None
    /\ LastSignal[1] = "finished"

\* C11: when the gate is Clear and no result is detected after navigating
\* to the results (nor after the wait that follows), the citation crawl
\* ends with a failure outcome (the error signal) for ResultsNotFound.
C11_ResultsNotFoundFails ==
    (crawl = "citers" /\ pc = "done" /\ inputs = <<"results">>
       /\ Len(FindResults(site, 1)) = 0)
        => LastSignal[1] = "error"

\* C12: in the profile crawl, when the "show more" button is enabled exactly
\* k times and then disabled or absent, it is clicked exactly k times (never
\* more), the disabled or absent button ends the expansion without an error,
\* and the crawl goes on to its extraction pass and ends with its result.
C12_ExpandExactly ==
    /\ clicks <= batches
    /\ expand_end \in {"timeout", "disabled"} =>
         /\ clicks = batches
         /\ pc \in {"wait_table", "p_row", "p_finally", "returned", "raised", "done"}
         /\ pc = "wait_table" => exc = None
         /\ pc = "returned" => (table = "present" => retval = Return(all_papers))

\* two clicks, then the button was found disabled, and the crawl returned
C12_Witness ==
    /\ crawl = "profile"
    /\ pc = "done"
    /\ batches >= 2
    /\ clicks = batches
    /\ expand_end = "disabled"
    /\ LastSignal[1] = "finished"

\* C13: every publication record has a citation count that is a natural
\* number, and no citation text makes a row fail: every row whose lookups
\* do not raise is in the result, whatever its citation text.
C13_CitationNeverFailsRow ==
    /\ \A i \in 1..Len(all_papers) : all_papers[i].citations \in Nat
    /\ (crawl = "profile" /\ table = "present"
          /\ pc \in {"p_finally", "returned", "raised", "done"})
         => Len(all_papers) =
              Cardinality({i \in 1..Len(paper_rows) : ~paper_rows[i].stale})

\* ------------------------------------------------- row extraction alone
\* The row extraction of the citation crawl as a function of the row: the
\* crawl stands at the first row of a one-row result page, the row drawn
\* from RowInputs, with nothing or the title "B" seen before.
LineTokens == {"Author", Dash, "2019", "1899"}

InfoLines == {NoText} \cup {Text(t) : t \in SeqsUpTo(LineTokens, MaxLineLen)}

RowInputs ==
    {CiterRow(rt, rta, h3, h3h, ga) :
        rt \in {Absent, "", "A"}, rta \in {Absent, "url_a"},
        h3 \in {Absent, "", "A", "B"}, h3h \in {None, "url_b"}, ga \in InfoLines}

SeenB ==
    [citer_title |-> "B", citer_link |-> None, citer_authors |-> NoText,
     citer_publication |-> NoText, citer_year |-> None]

\* The same for the profile crawl: it stands at the first row of a table
\* of one row, drawn from PaperRowInputs.
CitationChars == {"7", "0", Space, "a", "sup2"}

PaperRowInputs ==
    {PaperRow(a[1], a[2], g, y, c, st) :
        a \in {<<Absent, Absent>>, <<"T1", None>>, <<"T1", "url_1">>},
        g \in {<<>>, <<"authors">>, <<"authors", "venue">>},
        y \in {Absent, "", "2019"},
        c \in {NoText} \cup {Text(t) : t \in SeqsUpTo(CitationChars, MaxCiteLen)},
        st \in BOOLEAN}

InitPaperRow ==
    /\ crawl = "profile"
    /\ pc = "p_row"
    /\ driver = "firefox"
    /\ browser = "open"
    /\ launches = <<"firefox">>
    /\ gets = <<"profile_url">>
    /\ page_source = "clear"
    /\ scans = 0
    /\ inputs = <<>>
    /\ site = Unloaded
    /\ cur = 0
    /\ paper_rows \in {<<r>> : r \in PaperRowInputs}
    /\ row_i = 1
    /\ citers = <<>>
    /\ seen_titles = {}
    /\ page_num = 1
    /\ retry_count = 0
    /\ all_papers = <<>>
    /\ clicks = 0
    /\ batches = 0
    /\ expand_end = "timeout"
    /\ table = "present"
    /\ cited_by_url = None
    /\ exc = None
    /\ retval = NoReturn
    /\ signals = <<<<"progress", "start">>>>
    /\ opened = 1
    /\ quit_requested = FALSE
    /\ search_btn = FALSE
    /\ scraper_thread = "running"
    /\ citers_thread = "none"
    /\ papers_df = None
    /\ papers_table = "empty"
    /\ citers_table = "empty"
    /\ current_paper_title = None
    /\ citers_thread_title = None
    /\ citers_table_title = None
    /\ events = <<>>
    /\ started = 1

InitCiterRow ==
    /\ crawl = "citers"
    /\ pc = "row"
    /\ driver = "firefox"
    /\ browser = "open"
    /\ launches = <<"firefox">>
    /\ gets = <<"paper_url", "cited_by_href">>
    /\ page_source = "clear"
    /\ scans = 1
    /\ inputs = <<>>
    /\ \E r \in RowInputs :
         /\ site = [loaded |-> TRUE, results |-> <<r>>, style |-> "aria", last |-> "absent"]
         /\ paper_rows = <<r>>
    /\ cur = 1
    /\ row_i = 1
    /\ \E seen \in {{}, {"B"}} :
         /\ seen_titles = seen
         /\ citers = IF seen = {} THEN <<>> ELSE <<SeenB>>
    /\ page_num = 1
    /\ retry_count = 0
    /\ all_papers = <<>>
    /\ clicks = 0
    /\ batches = 0
    /\ expand_end = "none"
    /\ table = "unknown"
    /\ cited_by_url = "cited_by_href"
    /\ exc = None
    /\ retval = NoReturn
    /\ signals = <<<<"progress", "start">>>>
    /\ opened = 1
    /\ quit_requested = FALSE
    /\ search_btn = TRUE
    /\ scraper_thread = "finished"
    /\ citers_thread = "running"
    /\ papers_df = "rows"
    /\ papers_table = "rows"
    /\ citers_table = "loading"
    /\ current_paper_title = "T1"
    /\ citers_thread_title = "T1"
    /\ citers_table_title = None
    /\ events = <<>>
    /\ started = 2

InitRow == InitCiterRow \/ InitPaperRow

NextRow ==
    \/ ExtractRow
    \/ ExtractPaperRow

SpecRow == InitRow /\ [][NextRow]_vars

\* The positions of the delimiter in a line, and the k-th of them
Dashes(t) == {i \in 1..Len(t) : t[i] = Dash}
DashAt(t, k) ==
    CHOOSE i \in Dashes(t) : Cardinality({j \in Dashes(t) : j < i}) = k - 1

\* The tokens of t after the k-th delimiter (from the start for k = 0) up
\* to the next delimiter or the end
Segment(t, k) ==
    LET from == IF k = 0 THEN 1 ELSE DashAt(t, k) + 1
        to == IF Cardinality(Dashes(t)) > k THEN DashAt(t, k + 1) - 1 ELSE Len(t)
    IN  SubSeq(t, from, to)

InfoFieldsOf(row, rec) ==
    LET t == row.gs_a.text
        n == Cardinality(Dashes(t)) IN
    IF ~row.gs_a.found
    THEN rec.citer_authors = NoText /\ rec.citer_publication = NoText
         /\ rec.citer_year = None
    ELSE /\ rec.citer_authors = Text(Segment(t, 0))
         /\ rec.citer_publication = IF n >= 1 THEN Text(Segment(t, 1)) ELSE NoText
         /\ n < 2 => rec.citer_year = None
         /\ n >= 2 =>
              LET third == Segment(t, 2)
                  years == {i \in 1..Len(third) : third[i] \in YearTokens} IN
              IF years = {} THEN rec.citer_year = None
              ELSE \E i \in years : /\ rec.citer_year = third[i]
                                    /\ \A j \in years : i <= j

\* C14: for the info line of a citer row split on ' - ': segment 0 is the
\* authors, segment 1 (if present) the venue, and the year is present only
\* when a third segment exists and holds a year (its first one); a line of
\* two segments yields no year, also when its second segment holds one.
C14_InfoLineFields ==
    [][(pc = "row" /\ Len(citers') = Len(citers) + 1)
          => InfoFieldsOf(paper_rows[row_i], citers'[Len(citers')])]_vars

\* a record was made from the two-segment line 'Author - 2019': the venue
\* is '2019' and the year is absent
C14_Witness ==
    /\ pc = "next"
    /\ paper_rows[1].gs_a = Text(<<"Author", Dash, "2019">>)
    /\ Len(citers) = 1
    /\ citers[1].citer_publication = Text(<<"2019">>)
    /\ citers[1].citer_year = None

\* The pass over the page shown is not its first: the crawl shows one page
\* more with every advance, starting at page 1, and an advance moves one
\* page forward or back, so a page below the count of pages shown was shown
\* before.
Revisit == crawl = "citers" /\ cur < page_num

\* C15: extracting again a page extracted before in the same crawl adds no
\* citer record (every titled row of it is in seen_titles), so the records
\* of a crawl are decided by the pages alone.
C15_ReextractAddsNothing ==
    [][(pc = "row" /\ Revisit) => citers' = citers]_vars

\* a second pass over a page with a titled row has ended, with records kept
C15_Witness ==
    /\ pc = "next"
    /\ Revisit
    /\ citers # <<>>
    /\ \E i \in 1..Len(paper_rows) :
         ~Falsy(CiterTitle(paper_rows[i]).title)

\* The rows of a list that yield a record: titled, and no earlier row of
\* the list has the title
KeptRows(rows) ==
    {i \in 1..Len(rows) :
        /\ ~Falsy(CiterTitle(rows[i]).title)
        /\ \A j \in 1..(i - 1) : CiterTitle(rows[j]).title # CiterTitle(rows[i]).title}

\* The k-th smallest member of a set of numbers
KthOf(S, k) == CHOOSE i \in S : Cardinality({j \in S : j < i}) = k - 1

\* cs is the records of the kept rows of the list, in the order of the rows
InDocumentOrder(cs, rows) ==
    /\ Len(cs) = Cardinality(KeptRows(rows))
    /\ \A k \in 1..Len(cs) : cs[k] = CiterData(rows[KthOf(KeptRows(rows), k)])

\* The rows passed so far in the first pass over the pages: the pages
\* before the one shown, and the rows of it before row_i
RowsPassed == SubSeq(site.results, 1, (cur - 1) * PageSize + row_i - 1)

\* C16: the result keeps the document order: in the citation crawl the
\* records are those of the titled rows in page order then row order, each
\* title at its first occurrence only; in the profile crawl the records
\* follow the table rows they were made from.
C16_DocumentOrder ==
    /\ (crawl = "citers" /\ pc \in {"row", "next"} /\ ~Revisit)
         => InDocumentOrder(citers, RowsPassed)
    /\ \A k \in 1..Len(all_papers) :
         /\ all_papers[k].paper_id \in 1..Len(paper_rows)
         /\ all_papers[k].title =
              (IF paper_rows[all_papers[k].paper_id].gsc_a_at = Absent
               THEN None ELSE paper_rows[all_papers[k].paper_id].gsc_a_at)
         /\ k > 1 => all_papers[k - 1].paper_id < all_papers[k].paper_id

\* the second page has been passed and the list holds two records, with a
\* row skipped in between or not
C16_Witness ==
    /\ crawl = "citers"
    /\ pc = "next"
    /\ cur = 2
    /\ page_num = 2
    /\ Len(citers) = 2
    /\ Len(site.results) = 3

\* C17: no citer record has an empty or missing title.
C17_NoEmptyTitle ==
    \A i \in 1..Len(citers) : ~Falsy(citers[i].citer_title)

\* a page with a row of empty or missing title has been passed, and a
\* record was made of another row of it
C17_Witness ==
    /\ crawl = "citers"
    /\ pc = "next"
    /\ citers # <<>>
    /\ \E i \in 1..Len(paper_rows) : Falsy(CiterTitle(paper_rows[i]).title)

\* ------------------------------------------------ quit() of the thread
\* 'self.citers_thread.quit()' of load_citers_for_paper, called while the
\* thread of the citation crawl is running.  quit() ends the event loop of
\* the thread; run() starts none, and nothing in run() or in the crawl
\* function reads the request.
QuitCitersThread ==
    /\ crawl = "citers"
    /\ pc # "done"
    /\ ~quit_requested
    /\ quit_requested' = TRUE
    /\ UNCHANGED <<crawlVars, guiVars>>

NextCancel ==
    \/ Next
    \/ QuitCitersThread

SpecCancel == Init /\ [][NextCancel]_vars

\* C18: once the caller has asked a running crawl to stop, the crawl leaves
\* its loop at the top of the next iteration, with no further pass, retry
\* or advance.
C18_CancelObserved ==
    [][(quit_requested /\ pc = "loop") => pc' = "finally"]_vars

\* ------------------------------------------------------- the main window
\* The handlers of MainWindow run on the GUI thread, one at a time; each
\* thread is seen from the window by its state and by the signal it ends
\* with, which is queued for the slot connected to it.
\* A queued signal is <<slot, argument, paper_title of the emitting citers
\* thread (None for the scraper thread)>>.
ScraperOutcomes ==
    { <<"on_scraping_finished", "rows", None>>,
      <<"on_scraping_finished", "empty", None>>,
      <<"on_scraping_error", "msg", None>> }

CitersOutcomes(paper_title) ==
    { <<"on_citers_loaded", "rows", paper_title>>,
      <<"on_citers_loaded", "empty", paper_title>>,
      <<"on_citers_error", "msg", paper_title>> }

\* The titles of the rows of the papers table
PaperTitles == {"T1", "T2"}

\* The click of the search button (a disabled button emits no click)
start_scraping ==
    /\ search_btn
    /\ started < MaxCrawls
    /\ \E url \in {"", "other_url", "profile_url"} :
         IF url # "profile_url"
         THEN UNCHANGED guiVars
         ELSE /\ search_btn' = FALSE
              /\ scraper_thread' = "running"
              /\ started' = started + 1
              /\ UNCHANGED <<citers_thread, papers_df, papers_table, citers_table,
                             current_paper_title, citers_thread_title,
                             citers_table_title, events>>
    /\ UNCHANGED <<crawlVars, quit_requested>>

\* ScraperThread.run as seen from the window: the signal it ends with
ScraperThreadRun ==
    /\ scraper_thread = "running"
    /\ \E o \in ScraperOutcomes : events' = Append(events, o)
    /\ scraper_thread' = "finished"
    /\ UNCHANGED <<search_btn, citers_thread, papers_df, papers_table,
                   citers_table, current_paper_title, citers_thread_title,
                   citers_table_title, started>>
    /\ UNCHANGED <<crawlVars, quit_requested>>

on_scraping_finished ==
    /\ events # <<>>
    /\ Head(events)[1] = "on_scraping_finished"
    /\ papers_df' = Head(events)[2]
    /\ search_btn' = TRUE
    /\ papers_table' = IF Head(events)[2] = "empty" THEN papers_table ELSE "rows"
    /\ events' = Tail(events)
    /\ UNCHANGED <<scraper_thread, citers_thread, citers_table,
                   current_paper_title, citers_thread_title, citers_table_title,
                   started>>
    /\ UNCHANGED <<crawlVars, quit_requested>>

on_scraping_error ==
    /\ events # <<>>
    /\ Head(events)[1] = "on_scraping_error"
    /\ search_btn' = TRUE
    /\ events' = Tail(events)
    /\ UNCHANGED <<scraper_thread, citers_thread, papers_df, papers_table,
                   citers_table, current_paper_title, citers_thread_title,
                   citers_table_title, started>>
    /\ UNCHANGED <<crawlVars, quit_requested>>

\* load_citers_for_paper for a row of title paper_title whose link is
\* paper_link.  iloc[row] of an empty papers_df raises and the handler
\* ends; a running citers thread is waited for (its signal is queued
\* meanwhile), then the new one starts.
load_citers_for_paper(paper_title, paper_link) ==
    IF papers_df # "rows" \/ Falsy(paper_link)
    THEN UNCHANGED guiVars
    ELSE /\ current_paper_title' = paper_title
         /\ IF citers_thread = "running"
            THEN \E o \in CitersOutcomes(citers_thread_title) :
                   events' = Append(events, o)
            ELSE events' = events
         /\ citers_table' = "loading"
         /\ citers_table_title' = None
         /\ citers_thread_title' = paper_title
         /\ citers_thread' = "running"
         /\ started' = started + 1
         /\ UNCHANGED <<search_btn, scraper_thread, papers_df, papers_table>>

\* The click of a cell of the papers table: column 5 holds the citations
on_paper_cell_clicked ==
    /\ papers_table = "rows"
    /\ started < MaxCrawls
    /\ \E title \in PaperTitles, column \in {1, 5}, cite_item \in {0, 7},
          link \in {None, "", "url_1"} :
         IF column = 5 /\ cite_item > 0
         THEN load_citers_for_paper(title, link)
         ELSE UNCHANGED guiVars
    /\ UNCHANGED <<crawlVars, quit_requested>>

\* CitersThread.run as seen from the window
CitersThreadRun ==
    /\ citers_thread = "running"
    /\ \E o \in CitersOutcomes(citers_thread_title) : events' = Append(events, o)
    /\ citers_thread' = "finished"
    /\ UNCHANGED <<search_btn, scraper_thread, papers_df, papers_table,
                   citers_table, current_paper_title, citers_thread_title,
                   citers_table_title, started>>
    /\ UNCHANGED <<crawlVars, quit_requested>>

on_citers_loaded ==
    /\ events # <<>>
    /\ Head(events)[1] = "on_citers_loaded"
    /\ citers_table' = IF Head(events)[2] = "empty" THEN "no citers" ELSE "rows"
    /\ citers_table_title' = IF Head(events)[2] = "empty" THEN None ELSE Head(events)[3]
    /\ events' = Tail(events)
    /\ UNCHANGED <<search_btn, scraper_thread, citers_thread, papers_df,
                   papers_table, current_paper_title, citers_thread_title, started>>
    /\ UNCHANGED <<crawlVars, quit_requested>>

on_citers_error ==
    /\ events # <<>>
    /\ Head(events)[1] = "on_citers_error"
    /\ citers_table' = "error"
    /\ citers_table_title' = None
    /\ events' = Tail(events)
    /\ UNCHANGED <<search_btn, scraper_thread, citers_thread, papers_df,
                   papers_table, current_paper_title, citers_thread_title, started>>
    /\ UNCHANGED <<crawlVars, quit_requested>>

NextGui ==
    \/ start_scraping
    \/ ScraperThreadRun
    \/ on_scraping_finished
    \/ on_scraping_error
    \/ on_paper_cell_clicked
    \/ CitersThreadRun
    \/ on_citers_loaded
    \/ on_citers_error

SpecGui == Init /\ [][NextGui]_vars

\* C19: the window runs one crawl at a time: the thread of the profile
\* crawl and the thread of a citation crawl are never running together.
C19_CrawlsSerialized ==
    ~(scraper_thread = "running" /\ citers_thread = "running")

\* C20: a crawl starts at most one browser instance: the second engine is
\* started only when the first failed to start, and none is started after
\* the session was opened.
C20_OneBrowser ==
    /\ opened <= 1
    /\ opened = (IF driver = None THEN 0 ELSE 1)
    /\ browser = "open" => opened = 1
    /\ (opened = 1 /\ launches = <<"firefox", "chrome">>) => driver = "chrome"
    /\ pc \notin {"run", "firefox", "chrome"} => Len(launches) = (IF driver = "firefox" THEN 1 ELSE 2)

\* a crawl that ran on Chrome, started after Firefox failed, has ended
C20_Witness ==
    /\ pc = "done"
    /\ driver = "chrome"
    /\ opened = 1
    /\ browser = "quit"

\* ------------------------------------------------------------- progress
\* The thread is scheduled until run() returns, and a human at the console
\* answers every input().
SpecFair == Init /\ [][Next]_vars /\ WF_vars(Next)

\* The terminal signals of a thread among those it emitted
TerminalSignals == {i \in 1..Len(signals) : signals[i][1] \in {"finished", "error"}}

\* C21: every started crawl thread delivers a terminal notification, the
\* finished signal or the error signal: it reaches the end of run() with
\* one emitted.
C21_TerminalDelivered ==
    <>(pc = "done" /\ Cardinality(TerminalSignals) = 1)

\* The gate check of the crawl reported a block: the crawl waits at the
\* first input(), or has been resumed from it
GateBlocked == pc = "input1" \/ (inputs # <<>> /\ inputs[1] = "gate")

\* C22: a crawl waits for the resume signal (an input() call) only after
\* its gate check reported a block; with a Clear gate it never waits.
C22_ClearNeverWaits ==
    (crawl = "citers" /\ pc \in {"input1", "input2"}) => GateBlocked

\* C23: the title of a citer row is the first non-empty value of the
\* locators in priority order: a row whose gs_rt element has an empty text
\* and whose heading anchor has a text not seen before yields a record with
\* the text of the anchor.
C23_TitleFallsBack ==
    [][(/\ pc = "row"
        /\ paper_rows[row_i].gs_rt = ""
        /\ ~Falsy(paper_rows[row_i].h3a)
        /\ paper_rows[row_i].h3a # Absent
        /\ paper_rows[row_i].h3a \notin seen_titles)
          => /\ Len(citers') = Len(citers) + 1
             /\ citers'[Len(citers')].citer_title = paper_rows[row_i].h3a]_vars

\* The link a citer row gives: the anchor under the title element, else the
\* href of the title element itself, else none
LinkOf(row) ==
    IF row.gs_rt # Absent
    THEN (IF row.rt_a # Absent THEN row.rt_a ELSE None)
    ELSE row.h3a_href

\* The record rec holds every field of the profile row: the value of the
\* element, None where the element is missing (0 for the citations)
PaperFieldsOf(row, rec) ==
    LET c == Strip(row.gsc_a_c.text) IN
    /\ rec.title = (IF row.gsc_a_at = Absent THEN None ELSE row.gsc_a_at)
    /\ rec.link = (IF row.gsc_a_at = Absent THEN None ELSE row.href)
    /\ rec.authors = (IF Len(row.gs_gray) > 0 THEN row.gs_gray[1] ELSE None)
    /\ rec.publication = (IF Len(row.gs_gray) > 1 THEN row.gs_gray[2] ELSE None)
    /\ rec.year = (IF row.gsc_a_y \in {Absent, ""} THEN None ELSE row.gsc_a_y)
    /\ rec.citations =
         (IF row.gsc_a_c.found /\ Len(c) > 0 /\ \A i \in 1..Len(c) : c[i] \in DecimalDigits
          THEN IntValue(c) ELSE 0)

\* No lookup of the row raises something else than 'no such element', and
\* the citation text, if there is one, holds no digit that int() refuses
PlainRow(row) ==
    /\ ~row.stale
    /\ row.gsc_a_c.found => \A i \in 1..Len(row.gsc_a_c.text) :
                               row.gsc_a_c.text[i] \notin OtherDigits

\* C24: a missing element of a field that is not the title never fails the
\* row, in both crawls: the record is made, with the field absent (0 for
\* the citation count) and every other field as the row gives it.
C24_MissingFieldKeepsRow ==
    [][/\ (pc = "row" /\ ~Falsy(CiterTitle(paper_rows[row_i]).title)
             /\ CiterTitle(paper_rows[row_i]).title \notin seen_titles)
          => /\ Len(citers') = Len(citers) + 1
             /\ citers'[Len(citers')].citer_title = CiterTitle(paper_rows[row_i]).title
             /\ citers'[Len(citers')].citer_link = LinkOf(paper_rows[row_i])
             /\ InfoFieldsOf(paper_rows[row_i], citers'[Len(citers')])
       /\ (pc = "p_row" /\ PlainRow(paper_rows[row_i]))
          => /\ Len(all_papers') = Len(all_papers) + 1
             /\ PaperFieldsOf(paper_rows[row_i], all_papers'[Len(all_papers')])]_vars

\* a record was made of a profile row with a title and no other element
C24_Witness ==
    /\ crawl = "profile"
    /\ pc = "p_finally"
    /\ paper_rows = <<PaperRow("T1", None, <<>>, Absent, NoText, FALSE)>>
    /\ Len(all_papers) = 1
    /\ all_papers[1].citations = 0
    /\ all_papers[1].year = None

\* The extraction of the profile row raises: a lookup raises something
\* else than 'no such element', or int() refuses the citation text
RowFails(row) ==
    \/ row.stale
    \/ /\ row.gsc_a_c.found
       /\ IsDigit(Strip(row.gsc_a_c.text))
       /\ \E i \in 1..Len(row.gsc_a_c.text) : row.gsc_a_c.text[i] \in OtherDigits

\* The rows of the profile table the loop has passed
PaperRowsPassed ==
    IF pc = "p_row" THEN 1..(row_i - 1) ELSE 1..Len(paper_rows)

\* C25: an exception raised while a row is extracted never ends the crawl
\* and never keeps a later row from being extracted.  Profile crawl: the
\* loop passes every row of the table, the records are those of the rows
\* passed that did not fail, and no exception is pending.  Citation crawl:
\* every titled row passed is in the seen-set, whatever rows came before.
C25_RowErrorsAreLocal ==
    /\ (crawl = "profile" /\ table = "present" /\ pc \in {"p_row", "p_finally"})
         => /\ {all_papers[k].paper_id : k \in 1..Len(all_papers)}
                 = {i \in PaperRowsPassed : ~RowFails(paper_rows[i])}
            /\ exc = None
    /\ (crawl = "citers" /\ pc \in {"row", "next"} /\ ~Revisit)
         => \A i \in 1..Len(RowsPassed) :
              ~Falsy(CiterTitle(RowsPassed[i]).title)
                 => CiterTitle(RowsPassed[i]).title \in seen_titles

\* the first row of the table failed and the second one has a record
C25_Witness ==
    /\ crawl = "profile"
    /\ pc = "p_finally"
    /\ Len(paper_rows) = 2
    /\ RowFails(paper_rows[1])
    /\ Len(all_papers) = 1
    /\ all_papers[1].paper_id = 2

\* C26: the citation crawl clicks a next control (and goes to another pass
\* of the page loop) only if a locator found one and it carries neither the
\* disabled attribute nor a disabled class; the page counter changes only
\* with such a click.
C26_ClickOnlyEnabled ==
    [][((pc = "next" /\ pc' = "loop") \/ page_num' # page_num)
          => /\ pc = "next"
             /\ NavOf(site, cur).loc \in {"aria", "gs_nma", "href"}
             /\ NavOf(site, cur).dis = "no"
             /\ page_num' = NextPageNum(page_num)
             /\ cur' = NavOf(site, cur).target]_vars

\* after one click the crawl met, on the second page, a control disabled by
\* its class and left the loop
C26_Witness ==
    /\ crawl = "citers"
    /\ pc = "finally"
    /\ page_num = 2
    /\ cur = 2
    /\ retry_count = 0
    /\ row_i = Len(paper_rows) + 1
    /\ NavOf(site, cur).dis = "class"

\* C27: an error while the next control is located or clicked is never
\* retried: a step from the advance either is a click, which opens the next
\* pass with the retry counter reset, or ends the page loop at once, with
\* the page shown, the page counter, the retry counter and the records
\* left as they are; and the retry counter is raised only at the top of the
\* loop.
C27_AdvanceErrorEndsLoop ==
    [][/\ (pc = "next" /\ pc' = "loop") => retry_count' = 0
       /\ (pc = "next" /\ pc' # "loop")
            => /\ pc' = "finally"
               /\ UNCHANGED <<cur, page_num, retry_count, citers, seen_titles>>
       /\ retry_count' > retry_count => pc = "loop"
       /\ pc \in {"finally", "returned", "done"} => UNCHANGED <<cur, page_num, gets>>]_vars

\* the loop was left from the advance although a control that can be
\* clicked was there: the click raised
C27_Witness ==
    /\ crawl = "citers"
    /\ pc = "finally"
    /\ retry_count = 0
    /\ Len(paper_rows) > 0
    /\ row_i = Len(paper_rows) + 1
    /\ NavOf(site, cur).loc # "none"
    /\ NavOf(site, cur).dis = "no"

\* The list after is the list before, or the list before with one record
\* of the given fields at its end
AppendOnly(before, after, fields) ==
    \/ after = before
    \/ /\ Len(after) = Len(before) + 1
       /\ SubSeq(after, 1, Len(before)) = before
       /\ DOMAIN after[Len(after)] = fields

\* C28: the result sequence of a crawl is append-only: every step leaves
\* the records of the sequence as they are, in content and position, and
\* adds at most one record, at the end, with all of its fields set.
C28_AppendOnly ==
    [][/\ AppendOnly(citers, citers',
                     {"citer_title", "citer_link", "citer_authors",
                      "citer_publication", "citer_year"})
       /\ AppendOnly(all_papers, all_papers',
                     {"paper_id", "title", "link", "authors", "publication",
                      "year", "citations"})]_vars

\* two records are in the list while the second page is extracted
C28_Witness ==
    /\ crawl = "citers"
    /\ pc = "row"
    /\ cur = 2
    /\ Len(citers) = 2

\* C29: closing the browser never raises to the caller, in either crawl: a
\* crawl that reaches its finally block with no exception pending returns
\* its result, whatever quit() does.
C29_QuitNeverRaises ==
    [][(pc \in {"finally", "p_finally"} /\ exc = None)
          => (pc' = "returned" /\ exc' = None)]_vars

\* How far a position of the profile crawl is on its way
Stage(p) ==
    CASE p = "run" -> 0
      [] p = "firefox" -> 1
      [] p = "chrome" -> 2
      [] p = "load_profile" -> 3
      [] p = "expand" -> 4
      [] p = "wait_table" -> 5
      [] p = "p_row" -> 6
      [] p = "p_finally" -> 7
      [] p \in {"returned", "raised"} -> 8
      [] OTHER -> 9

\* C30: a profile crawl is a single pass: the profile url is loaded at most
\* once, the crawl never goes back to an earlier stage (the load, the
\* expansion, the wait for the table and the pass over the rows each start
\* once), the pass over the rows only moves forward, and a crawl with an
\* exception pending is at its end.
C30_SinglePass ==
    [][crawl = "profile" =>
         /\ Stage(pc') >= Stage(pc)
         /\ Stage(pc') = Stage(pc) => pc \in {"expand", "p_row"}
         /\ (pc = "p_row" /\ pc' = "p_row") => row_i' = row_i + 1
         /\ gets' \in {<<>>, <<"profile_url">>}
         /\ exc' # None => Stage(pc') >= 7]_vars

\* a crawl that lost its records to a failure at the end has stopped, with
\* the url loaded once
C30_Witness ==
    /\ crawl = "profile"
    /\ pc = "done"
    /\ exc # None
    /\ Len(all_papers) > 0
    /\ gets = <<"profile_url">>

\* C31: every browser session a crawl opens is non-headless: the engine in
\* use was started without the headless option.
C31_NeverHeadless ==
    driver # None => "--headless" \notin EngineOptions(crawl, driver)

\* C32: the retry counter of the citation crawl counts the failures in a
\* row of the page shown: it stays in 0..3, it goes up by one with a failed
\* pass over the page shown and back to 0 with an advance and changes in no
\* other way, and the failure that brings it to 3 ends the page loop.
C32_RetryCounter ==
    /\ [](/\ retry_count \in 0..max_retries
          /\ retry_count = max_retries => pc \in {"finally", "returned", "done"})
    /\ [][\/ retry_count' = retry_count
          \/ /\ retry_count' = retry_count + 1
             /\ pc = "loop"
             /\ UNCHANGED <<cur, page_num, citers>>
          \/ /\ retry_count' = 0
             /\ pc = "next"
             /\ pc' = "loop"]_vars

\* the second page failed three times in a row after the first page gave
\* records, and the loop has ended
C32_Witness ==
    /\ crawl = "citers"
    /\ pc = "finally"
    /\ retry_count = max_retries
    /\ cur = 2
    /\ citers # <<>>

\* C33: once a browser has started, the citation crawl never raises to its
\* caller: it returns the list gathered so far, and the thread emits the
\* finished signal with it; the error signal is emitted only when no
\* browser could be started.
C33_CitersNeverRaises ==
    crawl = "citers" =>
        /\ driver # None => (exc = None /\ pc # "raised")
        /\ pc = "returned" => retval = Return(citers)
        /\ pc = "done" =>
             IF driver = None
             THEN LastSignal = <<"error", NoBrowser>>
             ELSE /\ LastSignal[1] = "finished"
                  /\ LastSignal[2] = citers

\* the page failed three times, the exception was swallowed and the
\* records of the first page were delivered
C33_Witness ==
    /\ crawl = "citers"
    /\ pc = "done"
    /\ retry_count = max_retries
    /\ citers # <<>>
    /\ LastSignal[1] = "finished"

\* C34: the gate of the citation crawl is checked once, after the results
\* were navigated to and before the first pass; in the page loop the page
\* source is never read and no input() is called, so a page reached by an
\* advance that has no rows ends the loop, and the crawl ends normally with
\* the records gathered.
C34_GateCheckedOnce ==
    /\ [](/\ scans <= 1
          /\ (crawl = "citers" /\ pc \in {"input1", "detect", "input2", "loop", "row", "next"})
               => scans = 1
          /\ (crawl = "citers" /\ pc = "done" /\ page_num > 1
                /\ Len(FindResults(site, cur)) = 0)
               => LastSignal[1] = "finished")
    /\ [][/\ scans' # scans => pc = "gate"
          /\ pc \in {"loop", "row", "next"}
               => /\ UNCHANGED <<scans, inputs, page_source>>
                  /\ pc' \in {"loop", "row", "next", "finally"}]_vars

\* the last advance led to a page without rows and the crawl delivered the
\* records of the pages before
C34_Witness ==
    /\ crawl = "citers"
    /\ pc = "done"
    /\ page_num > 1
    /\ cur = NumPagesOf(site) + 1
    /\ FindResults(site, cur) = <<>>
    /\ citers # <<>>
    /\ LastSignal[1] = "finished"
    /\ scans = 1

\* C35: in the profile crawl any exception of the expansion loop, such as
\* a failed click, ends the expansion and nothing more: no exception is
\* pending, the crawl goes on to the wait for the table and the pass over
\* the rows loaded, and the thread delivers them with the finished signal.
C35_ExpandErrorIsNormalEnd ==
    (crawl = "profile" /\ expand_end = "error") =>
        /\ pc \in {"wait_table", "p_row", "p_finally"} => exc = None
        /\ pc = "returned" =>
             retval = (IF table = "present" THEN Return(all_papers) ELSE TableNotFound)
        /\ (pc = "done" /\ exc = None) =>
             /\ LastSignal[1] = "finished"
             /\ table = "present" => LastSignal[2] = all_papers

\* a click on the button failed after one batch was loaded, and the rows
\* were delivered
C35_Witness ==
    /\ crawl = "profile"
    /\ pc = "done"
    /\ expand_end = "error"
    /\ clicks = 1
    /\ batches = 2
    /\ all_papers # <<>>
    /\ LastSignal[1] = "finished"

\* C36: whenever the citers table shows citer records, they are the
\* records of the crawl for the paper named in the citers header.
C36_TableMatchesHeader ==
    citers_table = "rows" => citers_table_title = current_paper_title

\* C37: every row shown in the papers table has its record in papers_df:
\* a table that shows rows goes with a papers_df that holds them.
C37_TableRowsInFrame ==
    papers_table = "rows" => papers_df = "rows"

\* The titles of the records of a list of citers
TitlesOf(cs) == { cs[i].citer_title : i \in 1..Len(cs) }

\* C38: the seen-set is exactly the set of titles of the accumulated
\* records, at every page boundary and in between; a step changes the one
\* only with the other: it is a row step that adds one new title to the
\* seen-set and appends one record of that title.
C38_SeenSetIsTitles ==
    /\ [](seen_titles = TitlesOf(citers))
    /\ [][ (seen_titles' # seen_titles \/ citers' # citers)
           => /\ pc = "row"
              /\ Len(citers') = Len(citers) + 1
              /\ SubSeq(citers', 1, Len(citers)) = citers
              /\ citers'[Len(citers')].citer_title \notin seen_titles
              /\ seen_titles' =
                   seen_titles \cup {citers'[Len(citers')].citer_title} ]_vars

\* the end of a first page of two rows of one title: one record, one title
\* seen, the second row skipped
C38_Witness ==
    /\ crawl = "citers"
    /\ pc = "next"
    /\ page_num = 1
    /\ Len(paper_rows) = 2
    /\ CiterTitle(paper_rows[1]).found
    /\ CiterTitle(paper_rows[2]).found
    /\ CiterTitle(paper_rows[2]).title = CiterTitle(paper_rows[1]).title
    /\ Len(citers) = 1
    /\ seen_titles = {CiterTitle(paper_rows[1]).title}

====
